---------------------------- MODULE Spec2Model ----------------------------
(***************************************************************************)
(* Model of the Rune Vault service (src/mcp/vault/vault_mcp.py and         *)
(* src/mcp/vault/vault_grpc_server.py): the sliding-window rate limiter,   *)
(* token validation, startup key generation, and the handlers              *)
(* get_public_key, decrypt_scores and decrypt_search_results on the tool   *)
(* transport and on gRPC, the gRPC method DecryptMetadata, the request     *)
(* metrics, the audit log, and the health checker of                       *)
(* src/mcp/vault/monitoring.py.                                            *)
(*                                                                         *)
(* Time is counted in ticks, TicksPerSec ticks to a second, so that the    *)
(* truncation int(...) of get_retry_after is a real conversion.            *)
(***************************************************************************)
EXTENDS Integers, Sequences, FiniteSets, TLC

VARIABLES
    now,        \* the value time.time() returns, in ticks
    requests,   \* RateLimiter._requests: client_id -> list of timestamps
    admitted,   \* history: client_id -> the latest times is_allowed returned True
    last,       \* the outcome of the last completed call
    disk,       \* KEY_DIR: whether it exists and the key files in it
    phase,      \* "boot" until ensure_keys() has run, then "serving"
    served,     \* history: token -> the bundles get_public_key returned to it
    thr,        \* request threads inside RateLimiter methods
    lock,       \* holder of RateLimiter._lock, or NoThread
    args,       \* the arguments of the decrypt requests in flight
    audit,      \* the entry audit_log wrote last
    health      \* HealthChecker: its checks, health_status, the last /health answer

vars == <<now, requests, admitted, last, disk, phase, served, thr, lock, args,
         audit, health>>

limiterVars == <<now, requests, admitted>>

keyVars == <<disk, phase, served>>

threadVars == <<thr, lock>>

\* what neither the limiter nor a handler writes
sideVars == <<args, health>>

-----------------------------------------------------------------------------
(* Bounds of the model *)

\* ticks per second of the model's clock
TicksPerSec == 2

\* the clock stops advancing at this many ticks
MaxTime == 4

\* RateLimiter(max_requests, window_seconds), scaled down from (30, 60)
max_requests == 2

window_seconds == 1

WindowTicks == window_seconds * TicksPerSec

\* the admission history keeps the latest max_requests + HistoryExtra times
HistoryExtra == 2

-----------------------------------------------------------------------------
(* Tokens *)

VALID_TOKENS == {"T1", "T2"}

Tokens == VALID_TOKENS \cup {"BAD"}

\* the principals that call the limiter directly
Clients == {"T1", "BAD"}

-----------------------------------------------------------------------------
(* RateLimiter *)

\* defaultdict(list).__getitem__: the list of a key, empty for a new key
Lookup(req, c) == IF c \in DOMAIN req THEN req[c] ELSE <<>>

\* mutant: one list shared by every key
Store_Shared(req, c, ts) == [k \in (DOMAIN req) \cup {c} |-> ts]

\* the map after self._requests[c] = ts (a read of a new key creates it too)
Store(req, c, ts) == [k \in (DOMAIN req) \cup {c} |-> IF k = c THEN ts ELSE req[k]]

\* [t for t in self._requests[client_id] if now - t < self.window_seconds]
CleanOld(ts, t) == SelectSeq(ts, LAMBDA x : t - x < WindowTicks)

\* mutant: the limit is not checked
AtLimit_Never(ts) == FALSE

\* mutant: > for >=
AtLimit_OffByOne(ts) == Len(ts) > max_requests

\* len(self._requests[client_id]) >= self.max_requests
AtLimit(ts) == Len(ts) >= max_requests

\* is_allowed(client_id) called at time t: the value returned
is_allowed(req, c, t) == ~AtLimit(CleanOld(Lookup(req, c), t))

\* mutant: the admitted request is not recorded
is_allowed_requests_NoAppend(req, c, t) ==
    Store(req, c, CleanOld(Lookup(req, c), t))

\* is_allowed(client_id) called at time t: the map it leaves
is_allowed_requests(req, c, t) ==
    LET kept == CleanOld(Lookup(req, c), t)
    IN  IF AtLimit(kept) THEN Store(req, c, kept)
                         ELSE Store(req, c, Append(kept, t))

\* min(self._requests[client_id])
Oldest(ts) == CHOOSE m \in {ts[i] : i \in 1..Len(ts)} :
                  \A i \in 1..Len(ts) : m <= ts[i]

\* int(x) of a quantity of x ticks read in seconds: truncation toward zero
IntSeconds(x) == IF x >= 0 THEN x \div TicksPerSec ELSE -((-x) \div TicksPerSec)

Max0(x) == IF x > 0 THEN x ELSE 0

\* mutant: without max(0, ...)
get_retry_after_NoClamp(req, c, t) ==
    IF Lookup(req, c) = <<>> THEN 0
    ELSE IntSeconds(WindowTicks - (t - Oldest(Lookup(req, c))))

\* get_retry_after(client_id) called at time t: the value returned
get_retry_after(req, c, t) ==
    IF Lookup(req, c) = <<>> THEN 0
    ELSE Max0(IntSeconds(WindowTicks - (t - Oldest(Lookup(req, c)))))

\* get_retry_after(client_id): self._requests[client_id] creates a missing key
get_retry_after_requests(req, c) == Store(req, c, Lookup(req, c))

\* the history after an admission at time t
Remember(h, t) ==
    IF Len(h) < max_requests + HistoryExtra THEN Append(h, t)
    ELSE Append(Tail(h), t)

\* mutant: the allowlist is consulted before the rate limiter
validate_token_AllowlistFirst(req, tok, t, t2) ==
    IF tok \notin VALID_TOKENS THEN
        [outcome |-> "Unauthenticated", value |-> 0]
    ELSE IF ~is_allowed(req, tok, t) THEN
        [outcome |-> "RateLimited",
         value |-> get_retry_after(is_allowed_requests(req, tok, t), tok, t2)]
    ELSE [outcome |-> "OK", value |-> 0]

\* validate_token(token), is_allowed at time t and get_retry_after at time t2
validate_token(req, tok, t, t2) ==
    IF ~is_allowed(req, tok, t) THEN
        [outcome |-> "RateLimited",
         value |-> get_retry_after(is_allowed_requests(req, tok, t), tok, t2)]
    ELSE IF tok \notin VALID_TOKENS THEN
        [outcome |-> "Unauthenticated", value |-> 0]
    ELSE [outcome |-> "OK", value |-> 0]

\* mutant: an unknown token is rejected before it reaches the limiter
validate_token_requests_KnownOnly(req, tok, t) ==
    IF tok \notin VALID_TOKENS THEN req
    ELSE IF ~is_allowed(req, tok, t)
    THEN get_retry_after_requests(is_allowed_requests(req, tok, t), tok)
    ELSE is_allowed_requests(req, tok, t)

\* validate_token(token): the map it leaves
validate_token_requests(req, tok, t) ==
    IF ~is_allowed(req, tok, t)
    THEN get_retry_after_requests(is_allowed_requests(req, tok, t), tok)
    ELSE is_allowed_requests(req, tok, t)

-----------------------------------------------------------------------------
NoThread == "none"

Threads == {"w1", "w2"}

IdleThread == [pc |-> "idle", client |-> "", tnow |-> 0, result |-> ""]

\* no request blob in flight
NoBlob == [kind |-> "none"]

\* nothing written to the audit log yet
NoAudit == [operation |-> "none"]

\* the health checker before its first run: health_status = "unknown"
NoHealth == [checks |-> << >>, status |-> "unknown", code |-> 0]

\* no decrypt request in flight
NoArgs == [blob |-> NoBlob, top_k |-> 0, list |-> << >>]

Call(op, c, outcome, value, at) ==
    [op |-> op, client |-> c, outcome |-> outcome, value |-> value, at |-> at,
     transport |-> "direct", code |-> "", body |-> << >>,
     shape |-> "none", error |-> "", steps |-> << >>, top_k |-> 0,
     metrics |-> << >>]

InitLimiter ==
    /\ now = 0
    /\ requests = << >>
    /\ admitted = [c \in Tokens |-> << >>]
    /\ last = Call("none", "", "", 0, 0)
    /\ served = [c \in Tokens |-> {}]
    /\ thr = [t \in Threads |-> IdleThread]
    /\ lock = NoThread
    /\ audit = NoAudit

KeyFiles == {"EncKey.json", "EvalKey.json", "MetadataKey.json", "SecKey.json"}

\* the limiter is exercised with the keys in place
Init ==
    /\ InitLimiter
    /\ disk = [dir |-> TRUE, files |-> KeyFiles]
    /\ phase = "serving"
    /\ args = NoArgs
    /\ health = NoHealth

\* time passes
Tick ==
    /\ now < MaxTime
    /\ now' = now + 1
    /\ UNCHANGED <<requests, admitted, last, keyVars, sideVars, audit,
                   threadVars>>

\* a direct call rate_limiter.is_allowed(c)
IsAllowedCall(c) ==
    LET ok == is_allowed(requests, c, now)
    IN  /\ requests' = is_allowed_requests(requests, c, now)
        /\ admitted' = IF ok THEN [admitted EXCEPT ![c] = Remember(@, now)]
                             ELSE admitted
        /\ last' = Call("is_allowed", c, IF ok THEN "True" ELSE "False", 0, now)
        /\ UNCHANGED <<now, keyVars, sideVars, audit, threadVars>>

\* a direct call rate_limiter.get_retry_after(c)
RetryAfterCall(c) ==
    /\ requests' = get_retry_after_requests(requests, c)
    /\ last' = Call("retry_after", c, "value",
                    get_retry_after(requests, c, now), now)
    /\ UNCHANGED <<now, admitted, keyVars, sideVars, audit, threadVars>>

\* the delays, in ticks, between the two clock reads of one validate_token
Delays == {0, 1}

\* a call validate_token(tok); d ticks pass before get_retry_after reads the clock
ValidateCall(tok, d) ==
    LET ok == is_allowed(requests, tok, now)
        t2 == IF ok THEN now ELSE now + d
        v  == validate_token(requests, tok, now, t2)
    IN  /\ t2 <= MaxTime
        /\ (ok => d = 0)
        /\ requests' = validate_token_requests(requests, tok, now)
        /\ admitted' = IF ok THEN [admitted EXCEPT ![tok] = Remember(@, now)]
                             ELSE admitted
        /\ now' = t2
        /\ last' = Call("validate", tok, v.outcome, v.value, now)
        /\ UNCHANGED <<keyVars, sideVars, audit, threadVars>>

Next ==
    \/ Tick
    \/ \E c \in Clients : IsAllowedCall(c)
    \/ \E c \in Clients : RetryAfterCall(c)
    \/ \E c \in Clients, d \in Delays : ValidateCall(c, d)

Spec == Init /\ [][Next]_vars

-----------------------------------------------------------------------------
(* Key store and get_public_key *)

\* f.read() of each key file: four different contents
FileContent ==
    [f \in KeyFiles |->
        CASE f = "EncKey.json" -> "enc-key-content"
          [] f = "EvalKey.json" -> "eval-key-content"
          [] f = "MetadataKey.json" -> "metadata-key-content"
          [] OTHER -> "sec-key-content"]

\* mutant: the secret key is bundled too
BundleFiles_WithSecKey ==
    <<"EncKey.json", "EvalKey.json", "MetadataKey.json", "SecKey.json">>

\* the files _get_public_key_impl looks for, in its order
BundleFiles == <<"EncKey.json", "EvalKey.json", "MetadataKey.json">>

\* mutant: a missing bundle file is reported as an error object
read_bundle_Strict(fs) ==
    IF \A i \in 1..Len(BundleFiles) : BundleFiles[i] \in fs
    THEN [i \in 1..Len(BundleFiles) |->
             <<BundleFiles[i], FileContent[BundleFiles[i]]>>]
    ELSE << <<"error", "Key file not found">> >>

\* the bundle dict of _get_public_key_impl as json.dumps writes it: the entries
\* (filename, content) in insertion order; fs is the set of files that exist
read_bundle(fs) ==
    SelectSeq([i \in 1..Len(BundleFiles) |->
                  <<BundleFiles[i], FileContent[BundleFiles[i]]>>],
              LAMBDA e : e[1] \in fs)

\* mutant: the bundle names the token it was issued to
public_bundle_PerToken(fs, tok) == Append(read_bundle(fs), <<"token", tok>>)

\* the JSON text _get_public_key_impl(token) returns once the token is validated
public_bundle(fs, tok) == read_bundle(fs)

\* ensure_keys(): the disk it leaves (KeyGenerator.generate_keys writes the set)
ensure_keys(d) == IF ~d.dir THEN [dir |-> TRUE, files |-> KeyFiles] ELSE d

\* "error" in parsed, for the parsed JSON object of a handler result
HasErrorKey(body) == \E i \in 1..Len(body) : body[i][1] = "error"

Transports == {"mcp", "grpc"}

\* import monitoring succeeded
MONITORING_AVAILABLE == TRUE

\* the status label of a servicer method: "error" once a soft error was
\* answered or an exception was caught
MetricStatus(outcome) == IF outcome = "OK" THEN "success" ELSE "error"

\* the samples one request adds to the metrics: the finally block of a
\* servicer method increments vault_requests_total and observes
\* vault_request_duration; the tools of the tool transport record nothing
Emitted(method, tr, outcome) ==
    IF tr = "grpc" /\ MONITORING_AVAILABLE
    THEN << [metric |-> "vault_requests_total", method |-> method,
             endpoint |-> "grpc", status |-> MetricStatus(outcome)],
            [metric |-> "vault_request_duration", method |-> method,
             endpoint |-> "grpc", status |-> ""] >>
    ELSE << >>

\* mutant: the first except clause catches every exception
GrpcCode_CatchAll(outcome) ==
    IF outcome \in {"RateLimited", "Unauthenticated", "Internal"}
    THEN "UNAUTHENTICATED"
    ELSE "OK"

\* mutant: an exception that is no ValueError leaves the status untouched
GrpcCode_NoInternal(outcome) ==
    IF outcome \in {"RateLimited", "Unauthenticated"} THEN "UNAUTHENTICATED"
    ELSE "OK"

\* the gRPC status a servicer method sets for an outcome of its handler: both
\* failures of validate_token are ValueError, any other exception is INTERNAL
GrpcCode(outcome) ==
    IF outcome \in {"RateLimited", "Unauthenticated"} THEN "UNAUTHENTICATED"
    ELSE IF outcome = "Internal" THEN "INTERNAL"
    ELSE "OK"

\* str(e) of the ValueError validate_token raises
ErrorText(v) ==
    IF v.outcome = "RateLimited" THEN "Rate limit exceeded. Retry after N seconds."
    ELSE IF v.outcome = "Unauthenticated"
    THEN "Access Denied: Invalid authentication token"
    ELSE ""

\* the value of the error key of a handler result
ErrorOf(body) ==
    LET i == CHOOSE i \in 1..Len(body) : body[i][1] = "error" IN body[i][2]

\* the response to a handler call over a transport: the tool transport hands
\* back the handler's JSON text or its exception; the gRPC servicer answers an
\* exception with a status code and an object with an error key with the
\* error field alone
Response(op, tr, tok, v, body, at) ==
    [op |-> op, client |-> tok,
     outcome |-> IF v.outcome = "OK" /\ tr = "grpc" /\ HasErrorKey(body)
                 THEN "SoftError" ELSE v.outcome,
     metrics |-> Emitted(op, tr,
                         IF v.outcome = "OK" /\ tr = "grpc" /\ HasErrorKey(body)
                         THEN "SoftError" ELSE v.outcome),
     value |-> v.value, at |-> at, transport |-> tr,
     code |-> IF tr = "grpc" THEN GrpcCode(v.outcome) ELSE "",
     body |-> IF v.outcome = "OK" /\ ~(tr = "grpc" /\ HasErrorKey(body))
              THEN body ELSE << >>,
     shape |-> IF v.outcome = "OK" /\ ~(tr = "grpc" /\ HasErrorKey(body))
               THEN "object" ELSE "none",
     error |-> IF v.outcome # "OK" THEN ErrorText(v)
               ELSE IF tr = "grpc" /\ HasErrorKey(body) THEN ErrorOf(body)
               ELSE "",
     steps |-> IF v.outcome = "OK" THEN <<"validate", "read_keys">>
               ELSE <<"validate">>,
     top_k |-> 0]

\* module import: ensure_keys() runs once, before any request, and then
\* Cipher(enc_key_path=...) is built, by library code that is given a path
\* which may not exist: it raises, and the process ends, or it does not
EnsureKeys ==
    /\ phase = "boot"
    /\ disk' = ensure_keys(disk)
    /\ phase' \in IF "EncKey.json" \in ensure_keys(disk).files
                  THEN {"serving"} ELSE {"serving", "failed"}
    /\ UNCHANGED <<limiterVars, last, served, threadVars, sideVars, audit>>

\* get_public_key(tok) over the tool transport, or GetPublicKey over gRPC
GetPublicKeyCall(tok, tr) ==
    LET ok   == is_allowed(requests, tok, now)
        v    == validate_token(requests, tok, now, now)
        body == public_bundle(disk.files, tok)
    IN  /\ phase = "serving"
        /\ requests' = validate_token_requests(requests, tok, now)
        /\ admitted' = IF ok THEN [admitted EXCEPT ![tok] = Remember(@, now)]
                             ELSE admitted
        /\ last' = Response("get_public_key", tr, tok, v, body, now)
        /\ served' = IF v.outcome = "OK"
                     THEN [served EXCEPT ![tok] = @ \cup {body}]
                     ELSE served
        /\ UNCHANGED <<now, disk, phase, threadVars, sideVars, audit>>

\* the key directory before startup: absent, or present with any of the files
InitKeys ==
    /\ InitLimiter
    /\ phase = "boot"
    /\ disk \in {[dir |-> FALSE, files |-> {}]}
                 \cup {[dir |-> TRUE, files |-> F] : F \in SUBSET KeyFiles}
    /\ args = NoArgs
    /\ health = NoHealth

NextKeys ==
    \/ EnsureKeys
    \/ \E tok \in Tokens, tr \in Transports : GetPublicKeyCall(tok, tr)

\* one process lifetime of the key store, its requests arriving in one tick
SpecKeys == InitKeys /\ [][NextKeys]_vars

-----------------------------------------------------------------------------
(* decrypt_scores *)

\* the largest top_k the policy check lets through: 10 in the source, scaled
\* down so that a ciphertext of MaxEntries scores can hold more than that
MaxTopK == 2

\* the scores a ciphertext holds are 1..MaxScore
MaxScore == 2

\* the number of scores in a ciphertext is at most MaxEntries
MaxEntries == 3

\* the number of rows of a nested plaintext is at most MaxShards
MaxShards == 2

ScoreVals == 1..MaxScore

\* the sequences over S of length at most n
SeqsUpTo(S, n) == UNION {[1..k -> S] : k \in 0..n}

\* a list of scores
Vectors == SeqsUpTo(ScoreVals, MaxEntries)

RECURSIVE TotalEntries(_)
\* the number of scores in a list of rows
TotalEntries(rows) ==
    IF rows = << >> THEN 0 ELSE Len(Head(rows)) + TotalEntries(Tail(rows))

RECURSIVE NestedOf(_, _)
\* the lists of k lists of scores that hold at most n scores in all
NestedOf(k, n) ==
    IF k = 0 THEN {<< >>}
    ELSE UNION {{<<v>> \o r : r \in NestedOf(k - 1, n - Len(v))} :
                   v \in SeqsUpTo(ScoreVals, n)}

\* a list of lists of scores, ragged
Nested == UNION {NestedOf(k, MaxEntries) : k \in 1..MaxShards}

\* the encrypted_blob_b64 arguments: text that is not base64, base64 of bytes
\* that are no serialized Query, and ciphertexts, each with the value
\* cipher.decrypt returns for it (a list of scores or a list of such lists)
Blobs ==
    {[kind |-> "bad_base64"], [kind |-> "bad_proto"]}
    \cup {[kind |-> "cipher", nested |-> FALSE, plain |-> v] : v \in Vectors}
    \cup {[kind |-> "cipher", nested |-> TRUE, plain |-> r] : r \in Nested}

\* the top_k arguments
TopKs == ((0 - 1)..(MaxEntries + 1)) \cup {MaxTopK, MaxTopK + 1}

\* mutant: top_k = 10 is refused too
PolicyViolated_Ten(k) == k >= MaxTopK

\* if top_k > 10
PolicyViolated(k) == k > MaxTopK

\* the unwrapping of decrypted_vector: the first row of a list of lists
Unwrap(b) == IF b.nested /\ Len(b.plain) > 0 THEN b.plain[1] ELSE b.plain

\* the position np.argpartition(scores, -top_k) pivots on, counted from 0 in
\* an array of n scores; the slice [-top_k:] starts there
KthPos(n, k) == IF k > 0 THEN n - k ELSE 0 - k

\* the number of indices the Top-K step yields for n scores, or -1 where
\* np.argpartition raises ValueError (kth out of bounds)
SelectedCount(n, k) ==
    IF n <= k THEN n
    ELSE IF KthPos(n, k) >= n THEN -1
    ELSE n - KthPos(n, k)

\* mutant: the selection is left in the order np.argpartition gave it
TopOrders_Unsorted(sc, m) ==
    {p \in [1..m -> 1..Len(sc)] :
        /\ \A i \in 1..m, j \in 1..m : i # j => p[i] # p[j]
        /\ \A j \in 1..Len(sc) :
              (\A i \in 1..m : p[i] # j) => \A i \in 1..m : sc[p[i]] >= sc[j]}

\* the index arrays (counted from 1) the Top-K step can yield when it keeps m
\* of the scores sc: m different positions holding m largest scores, the
\* scores in descending order. np.argsort and np.argpartition use an unstable
\* sort, so the positions of equal scores come in any order
TopOrders(sc, m) ==
    {p \in [1..m -> 1..Len(sc)] :
        /\ \A i \in 1..m, j \in 1..m : i # j => p[i] # p[j]
        /\ \A i \in 1..(m - 1) : sc[p[i]] >= sc[p[i + 1]]
        /\ \A j \in 1..Len(sc) :
              (\A i \in 1..m : p[i] # j) => \A i \in 1..m : sc[p[i]] >= sc[j]}

\* params: the entries {"index": int(idx), "score": float(scores[idx])}
ScoreEntries(sc, p) ==
    [i \in 1..Len(p) |-> [index |-> p[i] - 1, score |-> sc[p[i]]]]

\* a result of the handler: thrown, or returned as JSON text
Thrown(v) ==
    [outcome |-> v.outcome, shape |-> "none", body |-> << >>,
     steps |-> <<"validate">>]

\* mutant: the exception leaves the handler
Caught_Reraised(msg, steps) ==
    [outcome |-> "Internal", shape |-> "none", body |-> << >>, steps |-> steps]

\* return json.dumps({"error": ...})
Caught(msg, steps) ==
    [outcome |-> "OK", shape |-> "object", body |-> << <<"error", msg>> >>,
     steps |-> steps]

\* mutant: the policy check precedes validate_token
decrypt_scores_impl_PolicyFirst(v, b, k, fs) ==
    IF PolicyViolated(k) THEN
        {Caught("Rate Limit Exceeded: Max top_k is 10", <<"policy">>)}
    ELSE IF v.outcome # "OK" THEN {Thrown(v)}
    ELSE {Caught("Incorrect padding", <<"policy", "validate", "b64decode">>)}

\* _decrypt_scores_impl(token, encrypted_blob_b64, top_k): the results it can
\* give, v being the outcome of validate_token and fs the key files on disk
decrypt_scores_impl(v, b, k, fs) ==
    IF v.outcome # "OK" THEN {Thrown(v)}
    ELSE IF PolicyViolated(k) THEN
        {Caught("Rate Limit Exceeded: Max top_k is 10", <<"validate", "policy">>)}
    ELSE IF b.kind = "bad_base64" THEN
        {Caught("Incorrect padding", <<"validate", "policy", "b64decode">>)}
    ELSE IF b.kind = "bad_proto" THEN
        {Caught("Deserialization failed",
                <<"validate", "policy", "b64decode", "deserialize">>)}
    ELSE IF "SecKey.json" \notin fs THEN
        {Caught("Secret key not found",
                <<"validate", "policy", "b64decode", "deserialize", "decrypt">>)}
    ELSE
        LET sc == Unwrap(b)
            m  == SelectedCount(Len(sc), k)
            st == <<"validate", "policy", "b64decode", "deserialize",
                    "decrypt", "select">>
        IN  IF m < 0 THEN {Caught("kth out of bounds", st)}
            ELSE {[outcome |-> "OK", shape |-> "array",
                   body |-> ScoreEntries(sc, p), steps |-> st] :
                      p \in TopOrders(sc, m)}

\* the response to decrypt_scores over a transport: the tool transport hands
\* back the JSON text or the exception; VaultServiceServicer.DecryptScores
\* answers an exception with a status code, an object with an error key with
\* the error field alone, and reads item["shard_idx"] of each array entry,
\* a KeyError that it answers as INTERNAL
ScoresResponse(tr, tok, v, res, k, at) ==
    LET soft     == res.shape = "object" /\ HasErrorKey(res.body)
        keyerror == res.shape = "array" /\ res.body # << >>
        outcome  == IF tr # "grpc" \/ res.outcome # "OK" THEN res.outcome
                    ELSE IF soft THEN "SoftError"
                    ELSE IF keyerror THEN "Internal"
                    ELSE "OK"
        returned == res.outcome = "OK" /\ (tr = "grpc" => outcome = "OK")
    IN  [op |-> "decrypt_scores", client |-> tok, outcome |-> outcome,
         value |-> v.value, at |-> at, transport |-> tr,
         code |-> IF tr = "grpc" THEN GrpcCode(outcome) ELSE "",
         body |-> IF returned THEN res.body ELSE << >>,
         shape |-> IF returned THEN res.shape ELSE "none",
         error |-> IF res.outcome \in {"RateLimited", "Unauthenticated"}
                   THEN ErrorText(v)
                   ELSE IF res.outcome # "OK" THEN "Internal error"
                   ELSE IF tr = "grpc" /\ soft THEN ErrorOf(res.body)
                   ELSE IF tr = "grpc" /\ keyerror THEN "'shard_idx'"
                   ELSE "",
         steps |-> res.steps, top_k |-> k,
         metrics |-> Emitted("decrypt_scores", tr, outcome)]

\* decrypt_scores(tok, args.blob, args.top_k) over the tool transport, or
\* DecryptScores over gRPC
DecryptScoresCall(tok, tr) ==
    LET ok == is_allowed(requests, tok, now)
        v  == validate_token(requests, tok, now, now)
    IN  /\ phase = "serving"
        /\ args.blob # NoBlob
        /\ requests' = validate_token_requests(requests, tok, now)
        /\ admitted' = IF ok THEN [admitted EXCEPT ![tok] = Remember(@, now)]
                             ELSE admitted
        /\ \E res \in decrypt_scores_impl(v, args.blob, args.top_k, disk.files) :
              last' = ScoresResponse(tr, tok, v, res, args.top_k, now)
        /\ UNCHANGED <<now, disk, phase, served, threadVars, sideVars, audit>>

-----------------------------------------------------------------------------
(* decrypt_search_results and the audit log *)

\* ENABLE_AUDIT_LOG, at its default
ENABLE_AUDIT_LOG == TRUE

\* the number of characters of a token that the audit log shows
PrefixLen == 8

\* len(token): the demo tokens are long, an unknown token may be short
TokenLen ==
    [t \in Tokens |-> CASE t = "T1" -> 38 [] t = "T2" -> 32 [] OTHER -> 3]

\* masked_token: token[:8] + "..." if len(token) > 8 else token, written as
\* the number of leading characters of the token shown and whether "..."
\* follows them
MaskToken(tok) ==
    IF TokenLen[tok] > PrefixLen
    THEN [of |-> tok, shown |-> PrefixLen, ellipsis |-> TRUE]
    ELSE [of |-> tok, shown |-> TokenLen[tok], ellipsis |-> FALSE]

\* audit_log(operation, token, request_id, status, details, latency_ms): the
\* entry it writes (the model's clock does not advance during a call)
audit_log(operation, tok, rid, status, details) ==
    [operation |-> operation, token |-> MaskToken(tok),
     request_id |-> IF rid = "" THEN "N/A" ELSE rid,
     status |-> status, latency_ms |-> 0, details |-> details]

\* the request_id arguments of decrypt_search_results
RequestIds == {"", "req-1"}

\* request_id or f"vault_{uuid.uuid4().hex[:12]}"
RequestId(rid) == IF rid = "" THEN "vault_uuid" ELSE rid

\* mutant: the audit entry is given the request_id argument as it came
SearchFailed_RawRequestId(tok, rid, t, msg, steps, details) ==
    [body |-> << <<"ok", FALSE>>, <<"error", msg>>,
                 <<"request_id", RequestId(rid)>>, <<"timestamp", t>> >>,
     steps |-> steps,
     entry |-> audit_log("decrypt_search_results", tok, rid, "error", details)]

\* a failure of _decrypt_search_results_impl: the audit entry and the dict
SearchFailed(tok, rid, t, msg, steps, details) ==
    [body |-> << <<"ok", FALSE>>, <<"error", msg>>,
                 <<"request_id", RequestId(rid)>>, <<"timestamp", t>> >>,
     steps |-> steps,
     entry |-> audit_log("decrypt_search_results", tok, RequestId(rid),
                         "error", details)]

\* except ValueError as e
SearchValueError(tok, rid, t, msg, steps) ==
    SearchFailed(tok, rid, t, msg, steps, [error |-> msg])

\* except Exception as e
SearchException(tok, rid, t, msg, steps) ==
    SearchFailed(tok, rid, t, "Internal error: " \o msg, steps,
                 [error |-> msg, type |-> "Exception"])

\* the success of _decrypt_search_results_impl with the index array p
SearchSucceeded(tok, rid, t, sc, p, k, steps) ==
    LET results == ScoreEntries(sc, p)
    IN  [body |-> << <<"ok", TRUE>>, <<"results", results>>,
                     <<"request_id", RequestId(rid)>>, <<"timestamp", t>>,
                     <<"total_vectors", Len(sc)>> >>,
         steps |-> steps,
         entry |-> audit_log("decrypt_search_results", tok, RequestId(rid),
                             "success",
                             [top_k |-> k, total_vectors |-> Len(sc),
                              results_returned |-> Len(results),
                              max_score |-> IF results # << >>
                                            THEN results[1].score ELSE 0])]

\* _decrypt_search_results_impl(token, encrypted_blob_b64, top_k, request_id):
\* the results it can give, v being the outcome of validate_token; the
\* exception cipher.decrypt raises without the secret key is library code, a
\* ValueError or not
decrypt_search_results_impl(v, tok, b, k, fs, rid, t) ==
    IF v.outcome # "OK" THEN
        {SearchValueError(tok, rid, t, ErrorText(v), <<"validate">>)}
    ELSE IF k > MaxTopK THEN
        {SearchValueError(tok, rid, t, "Policy Violation: Max top_k is 10",
                          <<"validate", "policy">>)}
    ELSE IF k < 1 THEN
        {SearchValueError(tok, rid, t,
                          "Policy Violation: top_k must be at least 1",
                          <<"validate", "policy">>)}
    ELSE IF b.kind = "bad_base64" THEN
        {SearchValueError(tok, rid, t, "Deserialization failed",
                          <<"validate", "policy", "b64decode">>)}
    ELSE IF b.kind = "bad_proto" THEN
        {SearchValueError(tok, rid, t, "Deserialization failed",
                          <<"validate", "policy", "b64decode", "deserialize">>)}
    ELSE IF "SecKey.json" \notin fs THEN
        LET st == <<"validate", "policy", "b64decode", "deserialize", "decrypt">>
        IN  {SearchValueError(tok, rid, t, "Secret key not found", st),
             SearchException(tok, rid, t, "Secret key not found", st)}
    ELSE
        LET sc == Unwrap(b)
            st == <<"validate", "policy", "b64decode", "deserialize",
                    "decrypt", "select">>
        IN  {SearchSucceeded(tok, rid, t, sc, p, k, st) :
                p \in TopOrders(sc, SelectedCount(Len(sc), k))}

\* decrypt_search_results(tok, args.blob, args.top_k, rid), a tool of the tool
\* transport: it returns json.dumps of the dict whatever happened; audited
\* holds what the call appended to the audit log
DecryptSearchResultsCall(tok, rid) ==
    LET ok == is_allowed(requests, tok, now)
        v  == validate_token(requests, tok, now, now)
    IN  /\ phase = "serving"
        /\ args.blob # NoBlob
        /\ requests' = validate_token_requests(requests, tok, now)
        /\ admitted' = IF ok THEN [admitted EXCEPT ![tok] = Remember(@, now)]
                             ELSE admitted
        /\ \E res \in decrypt_search_results_impl(v, tok, args.blob, args.top_k,
                                                  disk.files, rid, now) :
              /\ last' = [op |-> "decrypt_search_results", client |-> tok,
                          outcome |-> "OK", value |-> v.value, at |-> now,
                          transport |-> "mcp", code |-> "", body |-> res.body,
                          shape |-> "object", error |-> "",
                          steps |-> res.steps, top_k |-> args.top_k,
                          metrics |-> << >>,
                          audited |-> IF ENABLE_AUDIT_LOG THEN <<res.entry>>
                                      ELSE << >>]
              /\ audit' = IF ENABLE_AUDIT_LOG THEN res.entry ELSE audit
        /\ UNCHANGED <<now, disk, phase, served, threadVars, sideVars>>

-----------------------------------------------------------------------------
(* decrypt_metadata *)

\* the number of elements of encrypted_metadata_list is at most MaxList
MaxList == 2

\* the elements of encrypted_metadata_list: the AES ciphertext of an object,
\* the AES ciphertext of a string, and text that does not decrypt
MetaTokens == {"enc_obj", "enc_str", "garbage"}

MetaLists == SeqsUpTo(MetaTokens, MaxList)

\* aes_decrypt_metadata succeeds on e
Decryptable(e) == e # "garbage"

\* the plaintext value aes_decrypt_metadata gives for e: its JSON type and,
\* for a string its characters, for any other value its JSON text
Plain(e) ==
    IF e = "enc_obj" THEN [type |-> "object", text |-> "{a: 1}"]
    ELSE [type |-> "string", text |-> "hello"]

\* mutant: an element that does not decrypt is left out of the array
decrypt_metadata_impl_PerItem(v, list, fs) ==
    IF v.outcome # "OK" THEN Thrown(v)
    ELSE [outcome |-> "OK", shape |-> "array",
          body |-> LET good == SelectSeq(list, Decryptable)
                   IN  [i \in 1..Len(good) |-> Plain(good[i])],
          steps |-> <<"validate", "metadata_key", "decrypt">>]

\* _decrypt_metadata_impl(token, encrypted_metadata_list): validate the token,
\* report a missing MetadataKey, decrypt every element and fail the batch on
\* the first element that does not decrypt
decrypt_metadata_impl(v, list, fs) ==
    IF v.outcome # "OK" THEN Thrown(v)
    ELSE IF "MetadataKey.json" \notin fs THEN
        Caught("MetadataKey not found in Vault", <<"validate", "metadata_key">>)
    ELSE IF \E i \in 1..Len(list) : ~Decryptable(list[i]) THEN
        Caught("Metadata decryption failed: <detail>",
               <<"validate", "metadata_key", "decrypt">>)
    ELSE [outcome |-> "OK", shape |-> "array",
          body |-> [i \in 1..Len(list) |-> Plain(list[i])],
          steps |-> <<"validate", "metadata_key", "decrypt">>]

\* json.dumps(item) if not isinstance(item, str) else item
Wire(item) == item.text

\* VaultServiceServicer.DecryptMetadata: an exception is answered with a
\* status code, an object with an error key with the error field alone, an
\* array with one string for each of its elements
MetadataResponse(tok, v, res, at) ==
    LET soft    == res.shape = "object" /\ HasErrorKey(res.body)
        outcome == IF res.outcome # "OK" THEN res.outcome
                   ELSE IF soft THEN "SoftError"
                   ELSE "OK"
    IN  [op |-> "decrypt_metadata", client |-> tok, outcome |-> outcome,
         value |-> v.value, at |-> at, transport |-> "grpc",
         code |-> GrpcCode(outcome),
         body |-> IF outcome = "OK"
                  THEN [i \in 1..Len(res.body) |-> Wire(res.body[i])]
                  ELSE << >>,
         shape |-> IF outcome = "OK" THEN "array" ELSE "none",
         error |-> IF res.outcome \in {"RateLimited", "Unauthenticated"}
                   THEN ErrorText(v)
                   ELSE IF res.outcome # "OK" THEN "Internal error"
                   ELSE IF soft THEN ErrorOf(res.body)
                   ELSE "",
         steps |-> res.steps, top_k |-> 0,
         metrics |-> Emitted("decrypt_metadata", "grpc", outcome)]

\* DecryptMetadata(tok, args.list) over gRPC
DecryptMetadataCall(tok) ==
    LET ok  == is_allowed(requests, tok, now)
        v   == validate_token(requests, tok, now, now)
        res == decrypt_metadata_impl(v, args.list, disk.files)
    IN  /\ phase = "serving"
        /\ args.blob = NoBlob
        /\ requests' = validate_token_requests(requests, tok, now)
        /\ admitted' = IF ok THEN [admitted EXCEPT ![tok] = Remember(@, now)]
                             ELSE admitted
        /\ last' = MetadataResponse(tok, v, res, now)
        /\ UNCHANGED <<now, disk, phase, served, threadVars, sideVars, audit>>

-----------------------------------------------------------------------------
\* the token whose requests exercise the Top-K selection
ScoreClients == {"T1"}

\* the service with its keys in place and the arguments its requests carry
InitScores ==
    /\ InitLimiter
    /\ phase = "serving"
    /\ disk = [dir |-> TRUE, files |-> KeyFiles]
    /\ args \in [blob : Blobs, top_k : TopKs, list : {<< >>}]
    /\ health = NoHealth

NextScores ==
    \E tok \in ScoreClients, tr \in Transports : DecryptScoresCall(tok, tr)

\* decrypt_scores serving the requests of one token that arrive in one tick
SpecScores == InitScores /\ [][NextScores]_vars

\* the number of scores a blob decrypts to
BlobSize(b) ==
    IF b.kind # "cipher" THEN 0
    ELSE IF b.nested THEN TotalEntries(b.plain) ELSE Len(b.plain)

\* the blobs that are no ciphertext or decrypt to a list of at most one score
SmallBlobs ==
    {b \in Blobs : b.kind = "cipher" => (~b.nested /\ BlobSize(b) <= 1)}

\* the top_k arguments at and around the limits of the policy checks
HandlerTopKs == {0 - 1, 0, 1, MaxTopK, MaxTopK + 1}

\* the arguments of a decrypt_scores or decrypt_search_results request, or
\* of a decrypt_metadata request
HandlerArgs ==
    [blob : SmallBlobs, top_k : HandlerTopKs, list : {<< >>}]
    \cup [blob : {NoBlob}, top_k : {0}, list : MetaLists]

\* the service with its keys generated, the secret key file or the metadata
\* key file possibly removed since, and the arguments its requests carry
InitHandlers ==
    /\ InitLimiter
    /\ phase = "serving"
    /\ args \in HandlerArgs
    /\ health = NoHealth
    /\ disk \in {[dir |-> TRUE, files |-> KeyFiles]} \cup
                IF args.blob = NoBlob
                THEN {[dir |-> TRUE, files |-> KeyFiles \ {"MetadataKey.json"}]}
                ELSE {[dir |-> TRUE, files |-> KeyFiles \ {"SecKey.json"}]}

NextHandlers ==
    \/ \E tok \in Clients : DecryptMetadataCall(tok)
    \/ \E tok \in Clients, tr \in Transports : GetPublicKeyCall(tok, tr)
    \/ \E tok \in Clients, tr \in Transports : DecryptScoresCall(tok, tr)
    \/ \E tok \in Clients, rid \in RequestIds :
          DecryptSearchResultsCall(tok, rid)

\* the handlers serving valid and unknown tokens, the requests arriving in
\* one tick
SpecHandlers == InitHandlers /\ [][NextHandlers]_vars

-----------------------------------------------------------------------------
(* RateLimiter methods run by concurrent request threads, statement by      *)
(* statement                                                                *)

\* the principal whose requests the threads carry
ConcClients == {"T1"}

\* with self._lock: the lock can be taken
LockFree == lock = NoThread

SetThread(t, pc, c, tnow, result) ==
    thr' = [thr EXCEPT ![t] = [pc |-> pc, client |-> c, tnow |-> tnow,
                               result |-> result]]

\* is_allowed: now = time.time(), read before the lock is taken
BeginIsAllowed(t, c) ==
    /\ thr[t].pc = "idle"
    /\ SetThread(t, "ia_lock", c, now, "")
    /\ UNCHANGED <<limiterVars, last, keyVars, sideVars, audit, lock>>

\* is_allowed: with self._lock
AcquireIsAllowed(t) ==
    /\ thr[t].pc = "ia_lock"
    /\ LockFree
    /\ lock' = t
    /\ SetThread(t, "ia_clean", thr[t].client, thr[t].tnow, "")
    /\ UNCHANGED <<limiterVars, last, keyVars, sideVars, audit>>

\* is_allowed: clean old entries, with the thread's own now
CleanIsAllowed(t) ==
    /\ thr[t].pc = "ia_clean"
    /\ requests' = Store(requests, thr[t].client,
                         CleanOld(Lookup(requests, thr[t].client), thr[t].tnow))
    /\ SetThread(t, "ia_check", thr[t].client, thr[t].tnow, "")
    /\ UNCHANGED <<now, admitted, last, keyVars, sideVars, audit, lock>>

\* is_allowed: check the limit; return False releases the lock
CheckIsAllowed(t) ==
    /\ thr[t].pc = "ia_check"
    /\ IF AtLimit(Lookup(requests, thr[t].client))
       THEN /\ SetThread(t, "idle", "", 0, "False")
            /\ lock' = NoThread
       ELSE /\ SetThread(t, "ia_append", thr[t].client, thr[t].tnow, "")
            /\ lock' = lock
    /\ UNCHANGED <<limiterVars, last, keyVars, sideVars, audit>>

\* is_allowed: record the request; return True releases the lock
AppendIsAllowed(t) ==
    /\ thr[t].pc = "ia_append"
    /\ requests' = Store(requests, thr[t].client,
                         Append(Lookup(requests, thr[t].client), thr[t].tnow))
    /\ admitted' = [admitted EXCEPT ![thr[t].client] = Remember(@, thr[t].tnow)]
    /\ SetThread(t, "idle", "", 0, "True")
    /\ lock' = NoThread
    /\ UNCHANGED <<now, last, keyVars, sideVars, audit>>

\* get_retry_after: called
BeginRetryAfter(t, c) ==
    /\ thr[t].pc = "idle"
    /\ SetThread(t, "ra_lock", c, 0, "")
    /\ UNCHANGED <<limiterVars, last, keyVars, sideVars, audit, lock>>

\* get_retry_after: with self._lock
AcquireRetryAfter(t) ==
    /\ thr[t].pc = "ra_lock"
    /\ LockFree
    /\ lock' = t
    /\ SetThread(t, "ra_read", thr[t].client, 0, "")
    /\ UNCHANGED <<limiterVars, last, keyVars, sideVars, audit>>

\* get_retry_after: the body, which reads the clock under the lock, and return
ReadRetryAfter(t) ==
    /\ thr[t].pc = "ra_read"
    /\ requests' = get_retry_after_requests(requests, thr[t].client)
    /\ SetThread(t, "idle", "", 0, "value")
    /\ lock' = NoThread
    /\ UNCHANGED <<now, admitted, last, keyVars, sideVars, audit>>

NextConc ==
    \/ Tick
    \/ \E t \in Threads, c \in ConcClients : BeginIsAllowed(t, c)
    \/ \E t \in Threads : AcquireIsAllowed(t)
    \/ \E t \in Threads : CleanIsAllowed(t)
    \/ \E t \in Threads : CheckIsAllowed(t)
    \/ \E t \in Threads : AppendIsAllowed(t)
    \/ \E t \in Threads, c \in ConcClients : BeginRetryAfter(t, c)
    \/ \E t \in Threads : AcquireRetryAfter(t)
    \/ \E t \in Threads : ReadRetryAfter(t)

\* the limiter under concurrent request threads
SpecConc == Init /\ [][NextConc]_vars

-----------------------------------------------------------------------------
(* HealthChecker *)

\* the keys of HealthChecker.checks, in the order run_checks walks them
CheckNames == <<"keys", "memory", "cpu", "disk">>

\* what running a check gives: the status of the result it returns, or an
\* exception, which run_checks catches
CheckOutcomes == {"healthy", "degraded", "unhealthy", "unknown", "raises"}

\* the body of the loop of run_checks: overall_status after a check that
\* gave o
NextOverall(overall, o) ==
    IF o = "raises" THEN "degraded"
    ELSE IF o = "unhealthy" THEN "unhealthy"
    ELSE IF o = "degraded" /\ overall = "healthy" THEN "degraded"
    ELSE IF o = "unknown" /\ overall \in {"healthy", "degraded"} THEN "degraded"
    ELSE overall

RECURSIVE Overall(_, _)
\* the loop of run_checks over the checks left to run
Overall(outs, overall) ==
    IF outs = << >> THEN overall
    ELSE Overall(Tail(outs), NextOverall(overall, Head(outs)))

\* run_checks(): the status it returns and stores in health_status
run_checks(outs) == Overall(outs, "healthy")

\* the status code of the /health endpoint
StatusCode(status) == IF status \in {"healthy", "degraded"} THEN 200 ELSE 503

\* periodic_health_check: one round of the background task
PeriodicHealthCheck ==
    /\ health' = [health EXCEPT !.status = run_checks(health.checks)]
    /\ UNCHANGED <<limiterVars, last, keyVars, threadVars, args, audit>>

\* GET /health
HealthRequest ==
    /\ health' = [health EXCEPT !.status = run_checks(health.checks),
                                !.code = StatusCode(run_checks(health.checks))]
    /\ UNCHANGED <<limiterVars, last, keyVars, threadVars, args, audit>>

\* the service with its keys in place and what each of its health checks
\* gives when it is run
InitHealth ==
    /\ InitLimiter
    /\ phase = "serving"
    /\ disk = [dir |-> TRUE, files |-> KeyFiles]
    /\ args = NoArgs
    /\ health \in [checks : [1..Len(CheckNames) -> CheckOutcomes],
                   status : {"unknown"}, code : {0}]

NextHealth ==
    \/ PeriodicHealthCheck
    \/ HealthRequest

\* the health checker, run by the background task and by the endpoint
SpecHealth == InitHealth /\ [][NextHealth]_vars

-----------------------------------------------------------------------------
(* Helpers of the properties *)

\* the number of entries of ts equal to t
Occ(ts, t) == Cardinality({i \in 1..Len(ts) : ts[i] = t})

\* the number of entries of h inside the window that ends at time t
InWindow(h, t) == Cardinality({i \in 1..Len(h) : t - h[i] < WindowTicks})

\* every half-open window [h[i], h[i] + WindowTicks) holds at most max_requests
\* of the admission times h
WithinLimit(h) ==
    \A i \in 1..Len(h) :
        Cardinality({j \in 1..Len(h) :
                        h[j] >= h[i] /\ h[j] - h[i] < WindowTicks}) <= max_requests

\* the last call went through is_allowed and was admitted
LastAdmitted == last.outcome \in {"True", "OK", "Unauthenticated"}

\* the admissions of the last call's principal that preceded the last call
PriorAdmissions ==
    LET h == admitted[last.client]
    IN  IF LastAdmitted THEN SubSeq(h, 1, Len(h) - 1) ELSE h

\* some call of principal a
CallBy(a) ==
    \/ IsAllowedCall(a)
    \/ RetryAfterCall(a)
    \/ \E d \in Delays : ValidateCall(a, d)

-----------------------------------------------------------------------------
(* C1: for every principal, the number of is_allowed calls that return true *)
(* inside any window of width window_seconds (half-open: two admissions     *)
(* exactly window_seconds apart are not in one window) is at most           *)
(* max_requests, over every sequence of calls at non-decreasing times.      *)
C1_WindowLimit == \A c \in Tokens : WithinLimit(admitted[c])

\* a principal was admitted more than max_requests times over several windows
\* and is now refused
C1_Witness ==
    /\ last.op = "is_allowed"
    /\ last.outcome = "False"
    /\ Len(admitted[last.client]) > max_requests

(* C2: is_allowed (directly, or inside validate_token) admits and records   *)
(* the call exactly when fewer than max_requests earlier admissions of the  *)
(* principal lie inside the current window; so from an empty limiter the    *)
(* first max_requests calls in one window succeed and the next is refused.  *)
C2_AdmitsBelowLimit ==
    last.op \in {"is_allowed", "validate"} =>
        /\ LastAdmitted <=> InWindow(PriorAdmissions, last.at) < max_requests
        /\ LastAdmitted =>
              LET ts == Lookup(requests, last.client)
              IN  ts # << >> /\ ts[Len(ts)] = last.at
        /\ (Len(PriorAdmissions) < max_requests) => LastAdmitted

\* the first max_requests calls of a window succeeded and call max_requests + 1,
\* made by a valid token in the same window, fails with RateLimited
C2_Witness ==
    /\ last.op = "validate"
    /\ last.outcome = "RateLimited"
    /\ last.client \in VALID_TOKENS
    /\ Len(admitted[last.client]) = max_requests
    /\ InWindow(admitted[last.client], last.at) = max_requests

(* C3: validate_token adds a timestamp to the token's sequence exactly when *)
(* is_allowed returned true: an unknown token that the limiter admits       *)
(* consumes one unit of quota although the call fails Unauthenticated, and  *)
(* a call refused as RateLimited adds no timestamp to any sequence.         *)
C3_QuotaIffAdmitted ==
    [][\A tok \in Tokens, d \in Delays :
          ValidateCall(tok, d) =>
            /\ is_allowed(requests, tok, now) <=> last'.outcome # "RateLimited"
            /\ last'.outcome # "RateLimited" =>
                  Occ(Lookup(requests', tok), now) = Occ(Lookup(requests, tok), now) + 1
            /\ (tok \notin VALID_TOKENS /\ is_allowed(requests, tok, now)) =>
                  last'.outcome = "Unauthenticated"
            /\ last'.outcome = "RateLimited" =>
                  \A k \in DOMAIN requests' :
                      requests'[k] = Lookup(requests, k)]_vars

\* an unknown token has used its whole quota on calls that failed
\* Unauthenticated
C3_Witness ==
    /\ last.op = "validate"
    /\ last.client = "BAD"
    /\ last.outcome = "Unauthenticated"
    /\ Len(requests["BAD"]) = max_requests

(* C4: validate_token consults the rate limiter before the allowlist: with  *)
(* the quota exhausted it fails RateLimited, carrying retry_after, whether  *)
(* or not the token is valid, and Unauthenticated is raised only for calls  *)
(* the limiter admitted.                                                    *)
C4_LimiterBeforeAllowlist ==
    last.op = "validate" =>
        /\ last.outcome = "RateLimited" <=>
              InWindow(PriorAdmissions, last.at) >= max_requests
        /\ last.outcome = "RateLimited" => last.value \in 0..window_seconds
        /\ last.outcome = "Unauthenticated" =>
              /\ last.client \notin VALID_TOKENS
              /\ admitted[last.client] # << >>
              /\ admitted[last.client][Len(admitted[last.client])] = last.at
              /\ Occ(requests[last.client], last.at) >= 1
        /\ last.outcome = "OK" => last.client \in VALID_TOKENS

\* an unknown token with its quota exhausted is refused as RateLimited
C4_Witness ==
    /\ last.op = "validate"
    /\ last.client \notin VALID_TOKENS
    /\ last.outcome = "RateLimited"
    /\ last.value > 0

(* C5: rate-limit quotas of different principals are independent: a call of *)
(* principal a (is_allowed, get_retry_after or validate_token, whatever its *)
(* outcome) leaves the timestamp sequence and the admissions of every other *)
(* principal b unchanged.                                                   *)
C5_Independent ==
    [][\A a \in Tokens :
          CallBy(a) =>
            \A b \in Tokens \ {a} :
                /\ Lookup(requests', b) = Lookup(requests, b)
                /\ admitted'[b] = admitted[b]
                /\ \A t \in 0..MaxTime :
                      is_allowed(requests', b, t) = is_allowed(requests, b, t)]_vars

\* one principal is at its limit while the other is admitted
C5_Witness ==
    /\ last.op = "is_allowed"
    /\ last.client = "BAD"
    /\ last.outcome = "True"
    /\ InWindow(Lookup(requests, "T1"), now) = max_requests
    /\ ~is_allowed(requests, "T1", now)

(* C6: get_retry_after returns 0 for a principal without timestamps, and    *)
(* otherwise the whole seconds until the oldest timestamp leaves the        *)
(* window, always within 0..window_seconds; right after a single admission  *)
(* it is window_seconds.                                                    *)
C6_RetryAfter ==
    last.op = "retry_after" =>
        LET ts == Lookup(requests, last.client)
            v  == last.value
        IN  /\ v \in 0..window_seconds
            /\ ts = << >> => v = 0
            /\ ts # << >> =>
                  \E i \in 1..Len(ts) :
                      /\ \A j \in 1..Len(ts) : ts[i] <= ts[j]
                      /\ LET remaining == ts[i] + WindowTicks - last.at
                         IN  IF remaining <= 0 THEN v = 0
                             ELSE /\ v * TicksPerSec <= remaining
                                  /\ remaining < (v + 1) * TicksPerSec
            /\ (Len(ts) = 1 /\ ts[1] = last.at) => v = window_seconds

\* a fraction of a second after an admission the whole seconds left are fewer
\* than window_seconds
C6_Witness ==
    /\ last.op = "retry_after"
    /\ Lookup(requests, last.client) # << >>
    /\ last.at > Oldest(Lookup(requests, last.client))
    /\ last.value < window_seconds
    /\ last.at - Oldest(Lookup(requests, last.client)) < WindowTicks

-----------------------------------------------------------------------------
\* the entries of a response body
Entries(body) == {body[i] : i \in 1..Len(body)}

C9_BundleIsEncAndEval ==
    (last.op = "get_public_key" /\ last.outcome = "OK") =>
        /\ \A e \in Entries(last.body) :
              /\ e[1] # "MetadataKey.json"
              /\ e[2] # FileContent["MetadataKey.json"]
        /\ {"EncKey.json", "EvalKey.json"} \subseteq disk.files =>
              {e[1] : e \in Entries(last.body)} = {"EncKey.json", "EvalKey.json"}

C11_MissingFileOmitted ==
    (/\ last.op = "get_public_key"
     /\ last.client \in VALID_TOKENS
     /\ last.outcome # "RateLimited") =>
        /\ last.outcome = "OK"
        /\ last.shape = "object"
        /\ last.error = ""
        /\ ~HasErrorKey(last.body)
        /\ \A f \in {"EncKey.json", "EvalKey.json"} :
              (f \in disk.files) <=> (<<f, FileContent[f]>> \in Entries(last.body))
        /\ \A e \in Entries(last.body) : e[1] \in disk.files

\* a bundle was returned with EncKey in it while the EvalKey file was missing
C11_Witness ==
    /\ last.op = "get_public_key"
    /\ last.outcome = "OK"
    /\ "EncKey.json" \in disk.files
    /\ "EvalKey.json" \notin disk.files
    /\ <<"EncKey.json", FileContent["EncKey.json"]>> \in Entries(last.body)

(* C12: startup key initialisation generates the full set of four key files *)
(* when EncKey is missing, and generates or overwrites nothing when EncKey  *)
(* is present; so a key directory that held the full set or no EncKey holds *)
(* all four files before any request is served.                             *)
C12_StartupKeys ==
    [][EnsureKeys =>
          IF "EncKey.json" \notin disk.files
          THEN disk'.files = KeyFiles /\ phase' = "serving"
          ELSE disk' = disk]_vars

-----------------------------------------------------------------------------
\* the error message of a soft error response, "" for any other response
SoftErrorText(r) ==
    IF r.transport = "grpc"
    THEN IF r.outcome = "SoftError" THEN r.error ELSE ""
    ELSE IF r.outcome = "OK" /\ r.shape = "object" /\ HasErrorKey(r.body)
         THEN ErrorOf(r.body) ELSE ""

\* the last call was decrypt_scores and validate_token let it through
ScoresAdmitted ==
    /\ last.op = "decrypt_scores"
    /\ last.outcome \notin {"RateLimited", "Unauthenticated"}

\* the last call was decrypt_scores and its result is an array of entries
ScoresArray == last.op = "decrypt_scores" /\ last.shape = "array"

Min(a, b) == IF a <= b THEN a ELSE b

\* the rows of scores a ciphertext blob decrypts to
RowsOf(b) == IF b.nested THEN b.plain ELSE <<b.plain>>

\* the candidates (shard, row) of a ciphertext blob
Candidates(b) ==
    {<<i, j>> : i \in 1..Len(RowsOf(b)), j \in 1..MaxEntries} \cap
    {c \in (1..MaxShards) \X (1..MaxEntries) : c[2] <= Len(RowsOf(b)[c[1]])}

(* C13: decrypt_scores with a valid, admitted token and top_k > 10 returns  *)
(* the soft error "Rate Limit Exceeded: Max top_k is 10" without decoding,  *)
(* deserialising or decrypting the blob, and every top_k from 1 to 10       *)
(* passes the policy check.                                                 *)
C13_TopKPolicy ==
    ScoresAdmitted =>
        /\ last.top_k > MaxTopK =>
              /\ SoftErrorText(last) = "Rate Limit Exceeded: Max top_k is 10"
              /\ last.steps = <<"validate", "policy">>
              /\ last.body = IF last.transport = "grpc" THEN << >>
                             ELSE << <<"error", SoftErrorText(last)>> >>
        /\ last.top_k \in 1..MaxTopK =>
              /\ SoftErrorText(last) # "Rate Limit Exceeded: Max top_k is 10"
              /\ Len(last.steps) > 2
              /\ last.steps[3] = "b64decode"

\* top_k = 11 was refused for a blob that decrypts to scores
C13_Witness ==
    /\ ScoresAdmitted
    /\ last.top_k = MaxTopK + 1
    /\ args.blob.kind = "cipher"
    /\ BlobSize(args.blob) > 0
    /\ SoftErrorText(last) # ""

(* C14: for every decrypted score structure and every top_k in 1..10, a     *)
(* decrypt_scores result that is not a soft error is an array of exactly    *)
(* min(top_k, total_entries) entries, total_entries counting the scores of  *)
(* all shards.                                                              *)
C14_ResultLength ==
    (ScoresArray /\ last.top_k \in 1..MaxTopK) =>
        Len(last.body) = Min(last.top_k, BlobSize(args.blob))

(* C15: in every decrypt_scores result that is an array the scores are      *)
(* non-increasing along the array, both when all entries are returned and   *)
(* when top_k of more entries are selected.                                 *)
C15_NonIncreasing ==
    ScoresArray =>
        \A i \in 1..(Len(last.body) - 1) :
            last.body[i].score >= last.body[i + 1].score

\* two of three scores were selected and the larger one comes first
C15_Witness ==
    /\ ScoresArray
    /\ last.top_k = 2
    /\ Len(Unwrap(args.blob)) > last.top_k
    /\ Len(last.body) = 2
    /\ last.body[1].score > last.body[2].score

(* C16: tie-breaking in decrypt_scores is stable with respect to the        *)
(* enumeration order: of two candidates with identical score the one        *)
(* enumerated first precedes the other in the output, and it is the one     *)
(* kept at the top_k cut-off.                                               *)
C16_StableTies ==
    (ScoresArray /\ last.top_k \in 1..MaxTopK) =>
        LET sc == Unwrap(args.blob)
            returned == {last.body[i].index : i \in 1..Len(last.body)}
        IN  /\ \A i \in 1..Len(last.body), j \in 1..Len(last.body) :
                  (i < j /\ last.body[i].score = last.body[j].score) =>
                      last.body[i].index < last.body[j].index
            /\ \A i \in 1..Len(last.body), j \in 1..Len(sc) :
                  ((j - 1) \notin returned /\ sc[j] = last.body[i].score) =>
                      last.body[i].index < j - 1

(* C17: decrypt_scores selects a global top-K over the entries of all       *)
(* shards: every returned score is at least as large as every score of any  *)
(* shard that is not returned, and each returned entry carries the shard    *)
(* identifier and the row index of the position its score came from.        *)
C17_GlobalTopK ==
    (ScoresArray /\ last.top_k \in 1..MaxTopK) =>
        LET rows == RowsOf(args.blob)
            n == Len(last.body)
        IN  /\ \A x \in ScoreVals :
                  Min(n, Cardinality({c \in Candidates(args.blob) :
                                         rows[c[1]][c[2]] >= x}))
                      = Cardinality({i \in 1..n : last.body[i].score >= x})
            /\ \A i \in 1..n :
                  /\ {"shard_idx", "row_idx"} \subseteq DOMAIN last.body[i]
                  /\ <<last.body[i].shard_idx, last.body[i].row_idx + 1>>
                        \in Candidates(args.blob)
                  /\ rows[last.body[i].shard_idx][last.body[i].row_idx + 1]
                        = last.body[i].score

-----------------------------------------------------------------------------
\* the last call was a call of a handler
HandlerCalled ==
    last.op \in {"get_public_key", "decrypt_scores", "decrypt_search_results"}

\* the failure the last call reported: the message of the exception thrown
\* or, for decrypt_search_results, the error of the object returned
FailureText(r) ==
    IF r.op = "decrypt_search_results"
    THEN IF HasErrorKey(r.body) THEN ErrorOf(r.body) ELSE ""
    ELSE IF r.outcome \in {"RateLimited", "Unauthenticated"} THEN r.error
    ELSE ""

\* the principal of the last call has used up its quota of the window
QuotaUsedUp == InWindow(admitted[last.client], last.at) >= max_requests

-----------------------------------------------------------------------------
\* the threads inside a critical section of RateLimiter
InCritical == {t \in Threads : thr[t].pc \in {"ia_clean", "ia_check", "ia_append", "ra_read"}}

(* C7: under any interleaving of concurrent is_allowed and get_retry_after  *)
(* calls the trim-check-append of each is_allowed is atomic with respect to *)
(* the others, and the limit of max_requests admissions of a principal per  *)
(* window holds exactly as in a sequential execution.                       *)
C7_ConcurrentLimit ==
    /\ Cardinality(InCritical) <= 1
    /\ \A c \in Tokens : WithinLimit(admitted[c])

\* the critical sections alone: at most one thread at a time, the lock holder
C7_MutualExclusion ==
    /\ Cardinality(InCritical) <= 1
    /\ \A t \in InCritical : lock = t

-----------------------------------------------------------------------------
\* the operations the transports serve
ServedOps ==
    {"get_public_key", "decrypt_scores", "decrypt_search_results",
     "decrypt_metadata"}

\* the samples of the metric named m among those the last request added
SamplesOf(m) ==
    {i \in 1..Len(last.metrics) : last.metrics[i].metric = m}

\* the last request threw or answered a soft error
RequestFailed ==
    \/ last.outcome # "OK"
    \/ last.shape = "object" /\ HasErrorKey(last.body)

(* C21: for every request of every operation on every transport the request *)
(* counter {method, transport, status} and the duration histogram {method,  *)
(* transport} are each incremented exactly once, whether the request        *)
(* succeeds, returns a soft error or throws; the status label is error for  *)
(* soft errors and thrown errors and success otherwise.                     *)
C21_MetricsOncePerRequest ==
    last.op \in ServedOps =>
        /\ Cardinality(SamplesOf("vault_requests_total")) = 1
        /\ Cardinality(SamplesOf("vault_request_duration")) = 1
        /\ \A i \in 1..Len(last.metrics) :
              /\ last.metrics[i].method = last.op
              /\ last.metrics[i].endpoint = last.transport
        /\ \A i \in SamplesOf("vault_requests_total") :
              last.metrics[i].status =
                  IF RequestFailed THEN "error" ELSE "success"

(* C22: decrypt_metadata is all-or-nothing: with a valid, admitted token it *)
(* answers either one decrypted value for each input element, in input      *)
(* order, or a single error that carries no decrypted value and does not    *)
(* tell which position failed; one failing element fails the whole batch,   *)
(* and an empty list gives the empty array.                                 *)
C22_AllOrNothing ==
    (/\ last.op = "decrypt_metadata"
     /\ last.client \in VALID_TOKENS
     /\ last.outcome # "RateLimited") =>
        IF "MetadataKey.json" \notin disk.files
        THEN /\ last.code = "OK"
             /\ last.body = << >>
             /\ last.error = "MetadataKey not found in Vault"
        ELSE IF \E i \in 1..Len(args.list) : ~Decryptable(args.list[i])
        THEN /\ last.code = "OK"
             /\ last.body = << >>
             /\ last.error = "Metadata decryption failed: <detail>"
        ELSE /\ last.code = "OK"
             /\ last.error = ""
             /\ Len(last.body) = Len(args.list)
             /\ \A i \in 1..Len(args.list) :
                   last.body[i] = Wire(Plain(args.list[i]))

\* a batch whose second element does not decrypt was answered with the error
\* alone, and so was the first element's value withheld
C22_Witness ==
    /\ last.op = "decrypt_metadata"
    /\ last.client \in VALID_TOKENS
    /\ args.list = <<"enc_obj", "garbage">>
    /\ "MetadataKey.json" \in disk.files
    /\ last.outcome = "SoftError"
    /\ last.body = << >>

\* the value of key k of the object the last call returned
Field(k) ==
    LET i == CHOOSE i \in 1..Len(last.body) : last.body[i][1] = k
    IN  last.body[i][2]

(* C23: with audit logging enabled every decrypt_search_results call writes *)
(* exactly one audit entry, which carries the request_id of the response    *)
(* and has status success exactly when the response has ok = true; calls    *)
(* rejected for an invalid token, an exhausted rate limit, a policy         *)
(* violation or a deserialisation failure are audited too and none of them  *)
(* is thrown.                                                               *)
C23_OneAuditEntry ==
    (ENABLE_AUDIT_LOG /\ last.op = "decrypt_search_results") =>
        /\ last.outcome = "OK"
        /\ last.shape = "object"
        /\ Len(last.audited) = 1
        /\ audit = last.audited[1]
        /\ audit.operation = "decrypt_search_results"
        /\ audit.token.of = last.client
        /\ audit.request_id = Field("request_id")
        /\ audit.status \in {"success", "error"}
        /\ audit.status = "success" <=> Field("ok") = TRUE

\* a call without a request_id that was refused by the rate limiter left an
\* error entry under the generated request_id
C23_Witness ==
    /\ last.op = "decrypt_search_results"
    /\ last.client \in VALID_TOKENS
    /\ Field("ok") = FALSE
    /\ Field("error") = "Rate limit exceeded. Retry after N seconds."
    /\ Field("request_id") = "vault_uuid"
    /\ audit.status = "error"
    /\ audit.request_id = "vault_uuid"

\* the number of ranked entries the last decryption response carries
RankedEntries ==
    IF last.op = "decrypt_scores" /\ last.shape = "array" THEN Len(last.body)
    ELSE IF last.op = "decrypt_search_results" /\ Field("ok") = TRUE
    THEN Len(Field("results"))
    ELSE 0

(* C24: no decryption response carries more ranked entries than the policy  *)
(* limit of top_k (10 in the source), for every integer top_k, zero, the    *)
(* negative values and the unset default 0 of the RPC included:             *)
(* decrypt_scores and decrypt_search_results return an error or at most     *)
(* that many entries.                                                       *)
C24_AtMostMaxTopK ==
    last.op \in {"decrypt_scores", "decrypt_search_results"} =>
        RankedEntries <= MaxTopK

\* the last call ran is_allowed for its principal
LimiterCalled == last.op \in {"is_allowed", "validate"} \cup ServedOps

(* C25: at each is_allowed(p) at time now exactly the entries older than    *)
(* now - window_seconds are dropped from p's sequence: an admission made    *)
(* exactly window_seconds ago still counts, an admission made more than     *)
(* window_seconds ago never does.                                           *)
C25_TrimAtBoundary ==
    LimiterCalled =>
        LET h  == admitted[last.client]
            ts == Lookup(requests, last.client)
        IN  \A i \in 1..Len(h) :
                IF last.at - h[i] <= WindowTicks
                THEN Occ(ts, h[i]) = Occ(h, h[i])
                ELSE Occ(ts, h[i]) = 0

(* C26: the number of keys of the principal -> timestamps map never exceeds *)
(* the size of VALID_TOKENS, after any sequence of requests, requests with  *)
(* unknown tokens and retry_after queries included.                         *)
C26_KeysWithinAllowlist ==
    Cardinality(DOMAIN requests) <= Cardinality(VALID_TOKENS)

(* C27: in every reachable state of the limiter each principal's timestamp  *)
(* sequence holds at most max_requests entries, after any interleaving of   *)
(* is_allowed and get_retry_after calls.                                    *)
C27_SequenceBounded ==
    \A c \in DOMAIN requests : Len(requests[c]) <= max_requests

\* the sequence is full, one thread was refused and another thread has
\* asked for the retry delay
C27_Witness ==
    /\ Len(Lookup(requests, "T1")) = max_requests
    /\ \E t \in Threads : thr[t].result = "False"
    /\ \E t \in Threads : thr[t].result = "value"

(* C28: the status run_checks aggregates is unhealthy whenever at least one *)
(* check reports unhealthy, whatever the order of the checks and whether a  *)
(* later check reports degraded or unknown or raises an exception; it is    *)
(* healthy only when every check reports healthy.                           *)
C28_UnhealthyDominates ==
    health.status # "unknown" =>
        /\ (\E i \in 1..Len(health.checks) : health.checks[i] = "unhealthy")
              => health.status = "unhealthy"
        /\ health.status = "healthy"
              => \A i \in 1..Len(health.checks) : health.checks[i] = "healthy"

(* C29: no audit log entry ever contains a complete token: for every token, *)
(* whatever its length, the token field of the entry is a strict prefix of  *)
(* the token followed by a mask.                                            *)
C29_TokenMasked ==
    audit # NoAudit =>
        /\ audit.token.shown < TokenLen[audit.token.of]
        /\ audit.token.ellipsis

\* str(e) of the two failures of validate_token
ValidationMessages ==
    {ErrorText([outcome |-> "RateLimited"]),
     ErrorText([outcome |-> "Unauthenticated"])}

=============================================================================
